---- MODULE Spec2Model ----
(***************************************************************************)
(* Fixed-capacity multisets of the multiset crate:                         *)
(*   - Multiset<$simd, UInt<U,B>>, an array of SIMD vectors                *)
(*     (src/src/simd/simd_array.rs), and                                   *)
(*   - Multiset2<u16, SIZE>, a flat array whose operations are dispatched  *)
(*     on the CPU feature cached in CPU_FEATURE (src/src/simd_impl.rs).    *)
(* Indices are 0-based as in the source.  A SIMD vector is a function      *)
(* 0..lanes-1 -> scalar, a Multiset's data a function 0..USIZE-1 -> vector,*)
(* a Multiset2's data a function 0..SIZE-1 -> u16.                         *)
(***************************************************************************)
EXTENDS Integers, FiniteSets, Sequences, TLC

VARIABLES
    kind,       \* the type of self: "Multiset" or "Multiset2"
    lanes,      \* <$simd>::lanes() of the Multiset type (0: a Multiset2)
    nvec,       \* UInt<U,B>::USIZE, the number of vectors (0: a Multiset2)
    bits,       \* width of $scalar (Multiset) or of u16 (Multiset2)
    size,       \* SIZE of Multiset2<u16, SIZE>
    tier,       \* the value CPU_FEATURE holds when a dispatched call reads it
    data,       \* self.data
    other,      \* other.data of a binary operation
    orig,       \* self.data when the operation was called
    res,        \* the operation that ran and what it returned
    draws,      \* number of values requested from the random generator
    source,     \* the values a constructor is given, in order
    taken,      \* number of values the constructor took from its iterator
    host,       \* the CPU features is_x86_feature_detected! reports
    once,       \* state of the Once guarding CPU_FEATURE
    cell,       \* storage of CPU_FEATURE
    pc,         \* position of each thread
    local,      \* the value the initialiser computed, per thread
    seen,       \* the tier each thread's dispatch matched on
    inits       \* number of times the initialiser of CPU_FEATURE ran

vars == <<kind, lanes, nvec, bits, size, tier, data, other, orig, res, draws,
          source, taken,
          host, once, cell, pc, local, seen, inits>>

\* what a query leaves alone, and what an operation on a multiset leaves alone
typeVars == <<kind, lanes, nvec, bits, size, tier, source, taken>>
tierVars == <<host, once, cell, pc, local, seen, inits>>

----------------------------------------------------------------------------
(* Bounds of the model *)

\* largest number of SIMD vectors in a Multiset
MaxVecs == 2
\* positions of a Multiset that may differ from its base value
MaxDev == 2
\* threads calling dispatched operations
NumThreads == 2
\* dispatched calls of one thread
MaxCalls == 2
\* largest SIZE of a Multiset2
MaxSize == 17
\* positions of a Multiset2 that may differ from its base value
MaxDev2 == 1
\* values a source sequence holds beyond len(), and positions of it that
\* deviate from its base value
MaxExtra == 2
MaxSrcDev == 1

\* lane counts of the SIMD-array types that are modelled (x2, x4)
LaneCounts == {2, 4}
\* widths of $scalar that are modelled: u8, u16 (2^32 is no TLC integer)
ScalarBits == {8, 16}

Pow2(n) == 2 ^ n
\* <$scalar>::MAX
MaxScalar(w) == Pow2(w) - 1
\* multiplicities the inputs are built from
Scalars(w) == {0, 1, MaxScalar(w)}

RECURSIVE SparseFrom(_, _, _, _)
SparseFrom(S, n, k, V) ==
    IF k = 0 \/ n = 0 THEN S
    ELSE SparseFrom(S \cup {[f EXCEPT ![p] = v] : f \in S, p \in 0 .. n - 1, v \in V},
                    n, k - 1, V)
\* arrays of n values of V: one base value everywhere but at k positions at most
SparseArrays(n, k, V) == SparseFrom({[p \in 0 .. n - 1 |-> b] : b \in V}, n, k, V)

\* the flattened contents of a Multiset: position arr_idx * lanes + i
Flat(d, L, V) == [p \in 0 .. L * V - 1 |-> d[p \div L][p % L]]
\* the Multiset holding the flat array f
Vectors(f, L, V) == [i \in 0 .. V - 1 |-> [j \in 0 .. L - 1 |-> f[i * L + j]]]

\* f[0] + ... + f[p], exact
RECURSIVE SumTo(_, _)
SumTo(f, p) == IF p < 0 THEN 0 ELSE f[p] + SumTo(f, p - 1)

NoRes == [op |-> "none"]

----------------------------------------------------------------------------
(* Operations of packed_simd vectors *)

Min(x, y) == IF x <= y THEN x ELSE y
Max(x, y) == IF x >= y THEN x ELSE y

\* simd_a.min(simd_b), simd_a.max(simd_b)
VecMin(simd_a, simd_b) == [j \in DOMAIN simd_a |-> Min(simd_a[j], simd_b[j])]
VecMax(simd_a, simd_b) == [j \in DOMAIN simd_a |-> Max(simd_a[j], simd_b[j])]
\* simd_a.lt(simd_b).any(), simd_a.gt(simd_b).any()
VecLtAny(simd_a, simd_b) == \E j \in DOMAIN simd_a : simd_a[j] < simd_b[j]
VecGtAny(simd_a, simd_b) == \E j \in DOMAIN simd_a : simd_a[j] > simd_b[j]

\* simd_a.le(simd_b).all(), simd_a.ge(simd_b).all()
VecLeAll(simd_a, simd_b) == \A j \in DOMAIN simd_a : simd_a[j] <= simd_b[j]
VecGeAll(simd_a, simd_b) == \A j \in DOMAIN simd_a : simd_a[j] >= simd_b[j]

\* $simd::max_element(), $simd::min_element(): the largest and the smallest lane
max_element(vec) ==
    CHOOSE v \in {vec[j] : j \in DOMAIN vec} : \A j \in DOMAIN vec : v >= vec[j]
min_element(vec) ==
    CHOOSE v \in {vec[j] : j \in DOMAIN vec} : \A j \in DOMAIN vec : v <= vec[j]

\* <$simd>::MAX
MaxVec(L, w) == [j \in 0 .. L - 1 |-> MaxScalar(w)]

\* <$simd>::ZERO
ZeroVec(L) == [j \in 0 .. L - 1 |-> 0]

\* lane-wise acc + vec of integer vectors, which wraps
VecAdd(acc, vec, w) == [j \in DOMAIN acc |-> (acc[j] + vec[j]) % Pow2(w)]

\* $simd::wrapping_sum()
wrapping_sum(vec, L, w) == SumTo(vec, L - 1) % Pow2(w)

\* <$simd_m>::splat(false).replace(vector_index, true).select(vec, ZERO)
MaskSelect(vec, vector_index) ==
    [j \in DOMAIN vec |-> IF j = vector_index THEN vec[j] ELSE 0]

\* *vec *= <$scalar>::ZERO
MulZero(vec, w) == [j \in DOMAIN vec |-> (vec[j] * 0) % Pow2(w)]

----------------------------------------------------------------------------
(* Multiset<$simd, UInt<U,B>>: src/src/simd/simd_array.rs *)

\* Multiset::len()
Multiset_len(L, V) == L * V

\* slice.len(), and the number of values an iterator over it yields
SliceLen(slice) == Cardinality(DOMAIN slice)

\* Multiset::new_uninitialized(): no vector has been written
new_uninitialized(V) == [i \in 0 .. V - 1 |-> "uninitialized"]

\* the inner loop of from_iter from lane j on; it is the number of values
\* the iterator has yielded, and it.next() is None once the source is used up
RECURSIVE from_iter_lanes(_, _, _, _, _)
from_iter_lanes(iter, L, j, it, elem_vec) ==
    IF j = L THEN [elem_vec |-> elem_vec, it |-> it]
    ELSE IF it < SliceLen(iter)
         THEN from_iter_lanes(iter, L, j + 1, it + 1,
                              [elem_vec EXCEPT ![j] = iter[it]])
         ELSE from_iter_lanes(iter, L, j + 1, it, elem_vec)

\* from_iter whose elem_vec is declared before the outer loop and keeps the
\* lanes of the vector before
RECURSIVE from_iter_loop_carry(_, _, _, _, _, _)
from_iter_loop_carry(iter, L, V, i, it, built) ==
    IF i = V THEN [data |-> built, it |-> it]
    ELSE LET r == from_iter_lanes(iter, L, 0, it,
                                  IF i = 0 THEN ZeroVec(L) ELSE built[i - 1])
         IN from_iter_loop_carry(iter, L, V, i + 1, r.it,
                                 [built EXCEPT ![i] = r.elem_vec])

\* the outer loop of from_iter from vector i on
RECURSIVE from_iter_loop(_, _, _, _, _, _)
from_iter_loop(iter, L, V, i, it, built) ==
    IF i = V THEN [data |-> built, it |-> it]
    ELSE LET r == from_iter_lanes(iter, L, 0, it, ZeroVec(L))
         IN from_iter_loop(iter, L, V, i + 1, r.it,
                           [built EXCEPT ![i] = r.elem_vec])

Multiset_from_iter(iter, L, V) ==
    from_iter_loop(iter, L, V, 0, 0, new_uninitialized(V))

\* from_slice whose assertion only asks for enough values
Multiset_from_slice_ge(slice, L, V) ==
    IF SliceLen(slice) < Multiset_len(L, V)
    THEN [panic |-> TRUE]
    ELSE [panic |-> FALSE, data |-> Multiset_from_iter(slice, L, V).data]

\* assert_eq!(slice.len(), Self::len()); Self::from_iter(slice.iter().cloned())
Multiset_from_slice(slice, L, V) ==
    IF SliceLen(slice) # Multiset_len(L, V)
    THEN [panic |-> TRUE]
    ELSE [panic |-> FALSE, data |-> Multiset_from_iter(slice, L, V).data]

\* the closures handed to Multiset::fold, by name:
\*   "add"  |acc, vec| acc + vec
\*   "max"  |acc, vec| acc.max(vec)      "min"  |acc, vec| acc.min(vec)
\*   "count_zero"      |acc, vec| acc + vec.eq(ZERO).bitmask().count_ones()
\*   "count_non_zero"  |acc, vec| acc + vec.gt(ZERO).bitmask().count_ones()
FoldClosure(f, acc, vec, w) ==
    CASE f = "add" -> VecAdd(acc, vec, w)
      [] f = "count_zero" -> acc + Cardinality({j \in DOMAIN vec : vec[j] = 0})
      [] f = "count_non_zero" -> acc + Cardinality({j \in DOMAIN vec : vec[j] > 0})
      [] f = "max" -> VecMax(acc, vec)
      [] f = "min" -> VecMin(acc, vec)

\* Multiset::fold(init, f) over the first k vectors of self.data, in order
RECURSIVE Multiset_fold(_, _, _, _, _)
Multiset_fold(d, k, init, f, w) ==
    IF k = 0 THEN init
    ELSE FoldClosure(f, Multiset_fold(d, k - 1, init, f, w), d[k - 1], w)

\* self.fold(<$simd>::ZERO, |acc, vec| acc + vec).wrapping_sum()
Multiset_total(d, L, V, w) ==
    wrapping_sum(Multiset_fold(d, V, ZeroVec(L), "add", w), L, w)

\* is_empty with any in place of all
Multiset_is_empty_any(d, L, V) == \E i \in 0 .. V - 1 : d[i] = ZeroVec(L)

\* self.fold(0, |acc, vec| acc + vec.eq(ZERO).bitmask().count_ones())
Multiset_count_zero(d, L, V, w) == Multiset_fold(d, V, 0, "count_zero", w)

\* self.fold(0, |acc, vec| acc + vec.gt(ZERO).bitmask().count_ones())
Multiset_count_non_zero(d, L, V, w) == Multiset_fold(d, V, 0, "count_non_zero", w)

\* self.count_non_zero() == 1
Multiset_is_singleton(d, L, V, w) == Multiset_count_non_zero(d, L, V, w) = 1

\* self.data.iter().all(|vec| vec == &<$simd>::ZERO)
Multiset_is_empty(d, L, V) == \A i \in 0 .. V - 1 : d[i] = ZeroVec(L)

\* the two loops of argmin, k counting the iterations done:
\* arr_idx = k / lanes, i = k % lanes
RECURSIVE argmin_loop(_, _, _, _, _, _)
argmin_loop(d, L, V, k, the_i, the_min) ==
    IF k = L * V THEN <<the_i, the_min>>
    ELSE LET arr_idx == k \div L
             i == k % L
             val == d[arr_idx][i]
         IN IF val < the_min
            THEN argmin_loop(d, L, V, k + 1, i, val)
            ELSE argmin_loop(d, L, V, k + 1, the_i, the_min)

Multiset_argmin(d, L, V) == argmin_loop(d, L, V, 0, 0, d[0][0])

\* self.argmin().0
Multiset_imin(d, L, V) == Multiset_argmin(d, L, V)[1]

\* argmax whose comparison also replaces on an equal value
RECURSIVE argmax_loop_ge(_, _, _, _, _, _)
argmax_loop_ge(d, L, V, k, the_i, the_max) ==
    IF k = L * V THEN <<the_i, the_max>>
    ELSE LET arr_idx == k \div L
             i == k % L
             val == d[arr_idx][i]
         IN IF val >= the_max
            THEN argmax_loop_ge(d, L, V, k + 1, arr_idx * L + i, val)
            ELSE argmax_loop_ge(d, L, V, k + 1, the_i, the_max)

\* the two loops of argmax, k counting the iterations done
RECURSIVE argmax_loop(_, _, _, _, _, _)
argmax_loop(d, L, V, k, the_i, the_max) ==
    IF k = L * V THEN <<the_i, the_max>>
    ELSE LET arr_idx == k \div L
             i == k % L
             val == d[arr_idx][i]
         IN IF val > the_max
            THEN argmax_loop(d, L, V, k + 1, arr_idx * L + i, val)
            ELSE argmax_loop(d, L, V, k + 1, the_i, the_max)

Multiset_argmax(d, L, V) == argmax_loop(d, L, V, 0, 0, d[0][0])

\* self.argmax().0
Multiset_imax(d, L, V) == Multiset_argmax(d, L, V)[1]

\* self.fold(<$simd>::ZERO, |acc, vec| acc.max(vec)).max_element()
Multiset_max(d, L, V, w) == max_element(Multiset_fold(d, V, ZeroVec(L), "max", w))

\* min whose fold starts from <$simd>::ZERO
Multiset_min_zero(d, L, V, w) == min_element(Multiset_fold(d, V, ZeroVec(L), "min", w))

\* self.fold(<$simd>::MAX, |acc, vec| acc.min(vec)).min_element()
Multiset_min(d, L, V, w) == min_element(Multiset_fold(d, V, MaxVec(L, w), "min", w))

\* self.data.iter_mut().for_each(|e| *e *= <$scalar>::ZERO)
Multiset_clear(d, V, w) == [i \in 0 .. V - 1 |-> MulZero(d[i], w)]

Multiset_contains(d, L, V, elem) ==
    IF elem < Multiset_len(L, V)
    THEN LET array_index == elem \div L
             vector_index == elem % L
         IN d[array_index][vector_index] > 0
    ELSE FALSE

\* choose that masks the chosen vector and leaves the other vectors alone
Multiset_choose_no_else(d, L, V, w, elem) ==
    LET array_index == elem \div L
        vector_index == elem % L
    IN [i \in 0 .. V - 1 |->
           IF i = array_index THEN MaskSelect(d[i], vector_index) ELSE d[i]]

Multiset_choose(d, L, V, w, elem) ==
    LET array_index == elem \div L
        vector_index == elem % L
    IN [i \in 0 .. V - 1 |->
           IF i = array_index THEN MaskSelect(d[i], vector_index)
           ELSE MulZero(d[i], w)]

\* rng.gen_range(low, high) of rand 0.7: a value of the half-open range
\* [low, high); it panics on an empty range
GenRange(low, high) == low .. high - 1

\* running sums of the flat array f, exact
PrefixSum(f, p) == SumTo(f, p)

\* tickets tried: the ends of the range and both sides of every running sum
TicketSamples(f, n, w, t) ==
    {0, 1, t - 1, t}
    \cup {PrefixSum(f, p) % Pow2(w) : p \in 0 .. n - 1}
    \cup {(PrefixSum(f, p) % Pow2(w)) + 1 : p \in 0 .. n - 1}

\* 'vec_loop of choose_random from lane j; oc: the build checks overflow
\* (acc += .. panics) or not (it wraps)
RECURSIVE vec_loop(_, _, _, _, _, _, _)
vec_loop(elem_vec, L, j, acc, choice_value, w, oc) ==
    IF j = L THEN [acc |-> acc, chosen |-> FALSE, vector_index |-> 0, panic |-> FALSE]
    ELSE LET s == acc + elem_vec[j]
         IN IF s > MaxScalar(w) /\ oc
            THEN [acc |-> acc, chosen |-> FALSE, vector_index |-> 0, panic |-> TRUE]
            ELSE IF s % Pow2(w) >= choice_value
            THEN [acc |-> s % Pow2(w), chosen |-> TRUE, vector_index |-> j,
                  panic |-> FALSE]
            ELSE vec_loop(elem_vec, L, j + 1, s % Pow2(w), choice_value, w, oc)

\* the loop of choose_random over the vectors, from vector i
RECURSIVE choose_random_loop(_, _, _, _, _, _, _, _, _)
choose_random_loop(d, L, V, i, acc, chosen, choice_value, w, oc) ==
    IF i = V THEN [data |-> d, panic |-> FALSE]
    ELSE IF chosen
    THEN choose_random_loop([d EXCEPT ![i] = MulZero(d[i], w)], L, V, i + 1, acc,
                            chosen, choice_value, w, oc)
    ELSE LET r == vec_loop(d[i], L, 0, acc, choice_value, w, oc)
         IN IF r.panic THEN [data |-> d, panic |-> TRUE]
            ELSE IF r.chosen
            THEN choose_random_loop([d EXCEPT ![i] = MaskSelect(d[i], r.vector_index)],
                                    L, V, i + 1, r.acc, TRUE, choice_value, w, oc)
            ELSE choose_random_loop([d EXCEPT ![i] = MulZero(d[i], w)], L, V, i + 1,
                                    r.acc, FALSE, choice_value, w, oc)

\* the range the ticket of Multiset::choose_random is drawn from:
\* rng.gen_range(ZERO, self.total() + ONE); {} when computing it panics
\* (total() + ONE overflows, or wraps to 0 and the range is empty)
Multiset_choice_range(d, L, V, w) ==
    LET high == Multiset_total(d, L, V, w) + 1
    IN IF high > MaxScalar(w) THEN {} ELSE GenRange(0, high)

Multiset_choose_random(d, L, V, w, choice_value, oc) ==
    choose_random_loop(d, L, V, 0, 0, FALSE, choice_value, w, oc)


\* Multiset::repeat(elem): every vector is <$simd>::splat(elem)
Multiset_repeat(elem, L, V) == [i \in 0 .. V - 1 |-> [j \in 0 .. L - 1 |-> elem]]

\* the closures handed to Multiset::zip_map, by name:
\*   "min"  |s1, s2| s1.min(s2)      "max"  |s1, s2| s1.max(s2)
ZipClosure(f, s1, s2) ==
    CASE f = "min" -> VecMin(s1, s2)
      [] f = "max" -> VecMax(s1, s2)

\* Multiset::zip_map(other, f): f on every pair of vectors
Multiset_zip_map(a, b, V, f) == [i \in 0 .. V - 1 |-> ZipClosure(f, a[i], b[i])]

\* self.zip_map(other, |s1, s2| s1.min(s2))
Multiset_intersection(a, b, V) == Multiset_zip_map(a, b, V, "min")

\* self.zip_map(other, |s1, s2| s1.max(s2))
Multiset_union(a, b, V) == Multiset_zip_map(a, b, V, "max")

\* self.data.iter().zip(other.data.iter()).any(|(s1, s2)| s1.lt(*s2).any())
Multiset_is_any_lesser(a, b, V) == \E i \in 0 .. V - 1 : VecLtAny(a[i], b[i])

\* self.data.iter().zip(other.data.iter()).any(|(s1, s2)| s1.gt(*s2).any())
Multiset_is_any_greater(a, b, V) == \E i \in 0 .. V - 1 : VecGtAny(a[i], b[i])

\* self.data.iter().zip(other.data.iter()).all(|(s1, s2)| s1.le(*s2).all())
Multiset_is_subset(a, b, V) == \A i \in 0 .. V - 1 : VecLeAll(a[i], b[i])

\* self.data.iter().zip(other.data.iter()).all(|(s1, s2)| s1.ge(*s2).all())
Multiset_is_superset(a, b, V) == \A i \in 0 .. V - 1 : VecGeAll(a[i], b[i])

\* self.is_subset(other) && self.is_any_lesser(other)
Multiset_is_proper_subset(a, b, V) ==
    Multiset_is_subset(a, b, V) /\ Multiset_is_any_lesser(a, b, V)

\* self.is_superset(other) && self.is_any_greater(other)
Multiset_is_proper_superset(a, b, V) ==
    Multiset_is_superset(a, b, V) /\ Multiset_is_any_greater(a, b, V)

----------------------------------------------------------------------------
(* ChunkUtils, the chunking engine the vector kernels of Multiset2 run on *)

\* lanes of the 128-bit (u16x8) and of the 256-bit (u16x16) kernels
Lanes128 == 8
Lanes256 == 16
\* width of u16
U16Bits == 16

CPUFeature == {"AVX2", "AVX", "SSE42", "DEF"}

\* chunks of width C an array of n elements is processed in: the full chunks
\* and, when n is no multiple of C, the remainder
NumChunks(n, C) == (n + C - 1) \div C

\* chunk c of the array d of n elements as the kernel sees it: C elements,
\* the positions of a remainder past the end of the array reading 0
Chunk(d, n, C, c) == [j \in 0 .. C - 1 |-> IF c * C + j < n THEN d[c * C + j] ELSE 0]

\* the chunk kernels of the vector tiers, by name
\*   "min"     simd_a.min(simd_b)          "max"     simd_a.max(simd_b)
ZipMapKernel(f, simd_a, simd_b) ==
    CASE f = "min" -> VecMin(simd_a, simd_b)
      [] f = "max" -> VecMax(simd_a, simd_b)

\*   "lt_any"  simd_a.lt(simd_b).any()     "gt_any"  simd_a.gt(simd_b).any()
\*   "le_all"  simd_a.le(simd_b).all()     "ge_all"  simd_a.ge(simd_b).all()
ZipAllKernel(f, simd_a, simd_b) ==
    CASE f = "lt_any" -> VecLtAny(simd_a, simd_b)
      [] f = "gt_any" -> VecGtAny(simd_a, simd_b)
      [] f = "le_all" -> VecLeAll(simd_a, simd_b)
      [] f = "ge_all" -> VecGeAll(simd_a, simd_b)

\*   "add"     acc + simd_a, on u16 lanes
\*   "count_non_zero"  acc + vec.gt(splat(0)).bitmask().count_ones()
FoldKernel(f, acc, simd_a) ==
    CASE f = "add" -> VecAdd(acc, simd_a, U16Bits)
      [] f = "count_non_zero" ->
             acc + Cardinality({j \in DOMAIN simd_a : simd_a[j] > 0})

\* fold_chunks::<_, _, C>(init, f): f folded over the first k chunks in order
RECURSIVE fold_chunks_to(_, _, _, _, _, _)
fold_chunks_to(d, n, C, init, f, k) ==
    IF k = 0 THEN init
    ELSE FoldKernel(f, fold_chunks_to(d, n, C, init, f, k - 1), Chunk(d, n, C, k - 1))

fold_chunks(d, n, C, init, f) == fold_chunks_to(d, n, C, init, f, NumChunks(n, C))

\* zip_map_chunks::<_, C>(other, f): position p of the result is lane p % C
\* of f on the chunks p / C of both arrays
zip_map_chunks(a, b, n, C, f) ==
    [p \in 0 .. n - 1 |->
        ZipMapKernel(f, Chunk(a, n, C, p \div C), Chunk(b, n, C, p \div C))[p % C]]

\* zip_all_chunks::<_, C>(other, f): f holds of every pair of chunks
zip_all_chunks(a, b, n, C, f) ==
    \A c \in 0 .. NumChunks(n, C) - 1 :
        ZipAllKernel(f, Chunk(a, n, C, c), Chunk(b, n, C, c))

----------------------------------------------------------------------------
(* Multiset2<u16, SIZE>: src/src/simd_impl.rs *)

\* the lane count $lanes the kernel of a tier is generated with (simd_variants!)
TierLanes(t) == IF t \in {"AVX2", "AVX"} THEN Lanes256 ELSE Lanes128

\* the closures handed to Multiset2::zip_map, by name:
\*   "min"  |s1, s2| s1.min(s2)      "max"  |s1, s2| s1.max(s2)
ZipClosure2(f, s1, s2) ==
    CASE f = "min" -> Min(s1, s2)
      [] f = "max" -> Max(s1, s2)

\* Multiset2::zip_map(other, f): f on every pair of elements
Multiset2_zip_map(a, b, n, f) == [p \in 0 .. n - 1 |-> ZipClosure2(f, a[p], b[p])]

\* the intersection kernel with max in place of min
intersection_simd_max(a, b, n, C) == zip_map_chunks(a, b, n, C, "max")

intersection_simd(a, b, n, C) == zip_map_chunks(a, b, n, C, "min")
_intersection_default(a, b, n) == Multiset2_zip_map(a, b, n, "min")

\* simd_dispatch! { pub fn intersection }
Multiset2_intersection(a, b, n, t) ==
    CASE t = "AVX2" -> intersection_simd(a, b, n, Lanes256)
      [] t = "AVX" -> intersection_simd(a, b, n, Lanes256)
      [] t = "SSE42" -> intersection_simd(a, b, n, Lanes128)
      [] t = "DEF" -> _intersection_default(a, b, n)

union_simd(a, b, n, C) == zip_map_chunks(a, b, n, C, "max")
_union_default(a, b, n) == Multiset2_zip_map(a, b, n, "max")

\* simd_dispatch! { pub fn union }
Multiset2_union(a, b, n, t) ==
    CASE t = "AVX2" -> union_simd(a, b, n, Lanes256)
      [] t = "AVX" -> union_simd(a, b, n, Lanes256)
      [] t = "SSE42" -> union_simd(a, b, n, Lanes128)
      [] t = "DEF" -> _union_default(a, b, n)

is_subset_simd(a, b, n, C) == zip_all_chunks(a, b, n, C, "le_all")
\* self.data.iter().zip(other.data.iter()).all(|(a, b)| a <= b)
_is_subset_default(a, b, n) == \A p \in 0 .. n - 1 : a[p] <= b[p]

\* simd_dispatch! { pub fn is_subset }
Multiset2_is_subset(a, b, n, t) ==
    CASE t = "AVX2" -> is_subset_simd(a, b, n, Lanes256)
      [] t = "AVX" -> is_subset_simd(a, b, n, Lanes256)
      [] t = "SSE42" -> is_subset_simd(a, b, n, Lanes128)
      [] t = "DEF" -> _is_subset_default(a, b, n)

is_superset_simd(a, b, n, C) == zip_all_chunks(a, b, n, C, "ge_all")
\* self.data.iter().zip(other.data.iter()).all(|(a, b)| a >= b)
_is_superset_default(a, b, n) == \A p \in 0 .. n - 1 : a[p] >= b[p]

\* simd_dispatch! { pub fn is_superset }
Multiset2_is_superset(a, b, n, t) ==
    CASE t = "AVX2" -> is_superset_simd(a, b, n, Lanes256)
      [] t = "AVX" -> is_superset_simd(a, b, n, Lanes256)
      [] t = "SSE42" -> is_superset_simd(a, b, n, Lanes128)
      [] t = "DEF" -> _is_superset_default(a, b, n)

\* is_proper_subset that leaves out the comparison self != other
Multiset2_is_proper_subset_eq(a, b, n, t) == Multiset2_is_subset(a, b, n, t)

\* self != other && self.is_subset(other)
Multiset2_is_proper_subset(a, b, n, t) == a # b /\ Multiset2_is_subset(a, b, n, t)

\* self != other && self.is_superset(other)
Multiset2_is_proper_superset(a, b, n, t) == a # b /\ Multiset2_is_superset(a, b, n, t)

is_any_lesser_simd(a, b, n, C) == zip_all_chunks(a, b, n, C, "lt_any")
_is_any_lesser_default(a, b, n) == \E p \in 0 .. n - 1 : a[p] < b[p]

\* simd_dispatch! { pub fn is_any_lesser }
Multiset2_is_any_lesser(a, b, n, t) ==
    CASE t = "AVX2" -> is_any_lesser_simd(a, b, n, Lanes256)
      [] t = "AVX" -> is_any_lesser_simd(a, b, n, Lanes256)
      [] t = "SSE42" -> is_any_lesser_simd(a, b, n, Lanes128)
      [] t = "DEF" -> _is_any_lesser_default(a, b, n)

is_any_greater_simd(a, b, n, C) == zip_all_chunks(a, b, n, C, "gt_any")
_is_any_greater_default(a, b, n) == \E p \in 0 .. n - 1 : a[p] > b[p]

\* simd_dispatch! { pub fn is_any_greater }
Multiset2_is_any_greater(a, b, n, t) ==
    CASE t = "AVX2" -> is_any_greater_simd(a, b, n, Lanes256)
      [] t = "AVX" -> is_any_greater_simd(a, b, n, Lanes256)
      [] t = "SSE42" -> is_any_greater_simd(a, b, n, Lanes128)
      [] t = "DEF" -> _is_any_greater_default(a, b, n)

\* total_simd: the elements summed as usize when SIZE < $lanes; else the
\* chunks added lane-wise in a u16 vector (which wraps) and its lanes summed
\* as usize
total_simd(d, n, C) ==
    IF n < C THEN SumTo(d, n - 1)
    ELSE LET sum_vec == fold_chunks(d, n, C, ZeroVec(C), "add")
         IN SumTo(sum_vec, C - 1)

\* self.data.iter().map(|e| *e as usize).sum()
_total_default(d, n) == SumTo(d, n - 1)

\* simd_dispatch! { pub fn total }
Multiset2_total(d, n, t) ==
    CASE t = "AVX2" -> total_simd(d, n, Lanes256)
      [] t = "AVX" -> total_simd(d, n, Lanes256)
      [] t = "SSE42" -> total_simd(d, n, Lanes128)
      [] t = "DEF" -> _total_default(d, n)

\* the closures handed to Multiset2::fold, by name:
\*   "min1"  |acc, elem| acc + elem.min(1) as usize
FoldClosure2(f, acc, elem) ==
    CASE f = "min1" -> acc + Min(elem, 1)

\* Multiset2::fold(init, f) over the first k elements, in order
RECURSIVE Multiset2_fold(_, _, _, _)
Multiset2_fold(d, k, init, f) ==
    IF k = 0 THEN init
    ELSE FoldClosure2(f, Multiset2_fold(d, k - 1, init, f), d[k - 1])

\* the count kernel folded over the full chunks only
count_non_zero_simd_full(d, n, C) ==
    fold_chunks_to(d, n, C, 0, "count_non_zero", n \div C)

count_non_zero_simd(d, n, C) == fold_chunks(d, n, C, 0, "count_non_zero")

_count_non_zero_default(d, n) == Multiset2_fold(d, n, 0, "min1")

\* simd_dispatch! { pub fn count_non_zero }
Multiset2_count_non_zero(d, n, t) ==
    CASE t = "AVX2" -> count_non_zero_simd(d, n, Lanes256)
      [] t = "AVX" -> count_non_zero_simd(d, n, Lanes256)
      [] t = "SSE42" -> count_non_zero_simd(d, n, Lanes128)
      [] t = "DEF" -> _count_non_zero_default(d, n)

\* SIZE - self.count_non_zero()
Multiset2_count_zero(d, n, t) == n - Multiset2_count_non_zero(d, n, t)

\* self.count_non_zero() == 1
Multiset2_is_singleton(d, n, t) == Multiset2_count_non_zero(d, n, t) = 1

\* rng.gen_range(1..=total) of rand 0.8: a value of the closed range
GenRangeInclusive(low, high) == low .. high

\* the loop with acc > choice_value in place of acc >= choice_value
RECURSIVE choose_random_loop_gt(_, _, _, _, _, _)
choose_random_loop_gt(d, n, i, acc, choice_value, r) ==
    IF i = n THEN r
    ELSE IF acc + d[i] > choice_value THEN [r EXCEPT ![i] = d[i]]
    ELSE choose_random_loop_gt(d, n, i + 1, acc + d[i], choice_value, r)

\* the loop of Multiset2::choose_random from element i; res is [0; SIZE]
RECURSIVE Multiset2_choose_random_loop(_, _, _, _, _, _)
Multiset2_choose_random_loop(d, n, i, acc, choice_value, r) ==
    IF i = n THEN r
    ELSE IF acc + d[i] >= choice_value THEN [r EXCEPT ![i] = d[i]]
    ELSE Multiset2_choose_random_loop(d, n, i + 1, acc + d[i], choice_value, r)

\* self.data after choose_random drew choice_value
Multiset2_choose_random(d, n, choice_value) ==
    Multiset2_choose_random_loop(d, n, 0, 0, choice_value, [p \in 0 .. n - 1 |-> 0])

----------------------------------------------------------------------------
(* CPU_FEATURE, the lazily initialised capability tier, and simd_dispatch! *)

Threads == 1 .. NumThreads
\* the features is_x86_feature_detected! can report
Features == {"avx2", "avx", "sse4.2"}

\* the initialiser with avx probed before avx2
detect_avx_first(h) ==
    IF "avx" \in h THEN "AVX"
    ELSE IF "avx2" \in h THEN "AVX2"
    ELSE IF "sse4.2" \in h THEN "SSE42"
    ELSE "DEF"

\* the initialiser of CPU_FEATURE on a host reporting the features h
detect(h) ==
    IF "avx2" \in h THEN "AVX2"
    ELSE IF "avx" \in h THEN "AVX"
    ELSE IF "sse4.2" \in h THEN "SSE42"
    ELSE "DEF"

InitTier ==
    /\ kind = "Multiset2" /\ lanes = 0 /\ nvec = 0 /\ bits = U16Bits
    /\ size = 0 /\ tier = "DEF"
    /\ data = <<>> /\ other = <<>> /\ orig = <<>> /\ res = NoRes /\ draws = 0
    /\ source = <<>> /\ taken = 0
    /\ host \in SUBSET Features
    /\ once = "INCOMPLETE"
    /\ cell = "unset"
    /\ pc = [t \in Threads |-> "idle"]
    /\ local = [t \in Threads |-> "unset"]
    /\ seen = [t \in Threads |-> <<>>]
    /\ inits = 0

\* a thread calls a dispatched operation: simd_dispatch! evaluates CPU_FEATURE
Call(t) ==
    /\ pc[t] = "idle"
    /\ Len(seen[t]) < MaxCalls
    /\ pc' = [pc EXCEPT ![t] = "deref"]
    /\ UNCHANGED <<typeVars, data, other, orig, res, draws,
                   host, once, cell, local, seen, inits>>

\* the Once is complete: no synchronisation
FastPath(t) ==
    /\ pc[t] = "deref"
    /\ once = "COMPLETE"
    /\ pc' = [pc EXCEPT ![t] = "read"]
    /\ UNCHANGED <<typeVars, data, other, orig, res, draws,
                   host, once, cell, local, seen, inits>>

SlowPath(t) ==
    /\ pc[t] = "deref"
    /\ once # "COMPLETE"
    /\ pc' = [pc EXCEPT ![t] = "call_once"]
    /\ UNCHANGED <<typeVars, data, other, orig, res, draws,
                   host, once, cell, local, seen, inits>>

\* the thread that moves the Once from INCOMPLETE to RUNNING runs the initialiser
Acquire(t) ==
    /\ pc[t] = "call_once"
    /\ once = "INCOMPLETE"
    /\ once' = "RUNNING"
    /\ inits' = inits + 1
    /\ pc' = [pc EXCEPT ![t] = "init"]
    /\ UNCHANGED <<typeVars, data, other, orig, res, draws, host, cell, local, seen>>

\* another thread is initialising: block
Wait(t) ==
    /\ pc[t] = "call_once"
    /\ once = "RUNNING"
    /\ pc' = [pc EXCEPT ![t] = "wait"]
    /\ UNCHANGED <<typeVars, data, other, orig, res, draws,
                   host, once, cell, local, seen, inits>>

Wake(t) ==
    /\ pc[t] \in {"call_once", "wait"}
    /\ once = "COMPLETE"
    /\ pc' = [pc EXCEPT ![t] = "read"]
    /\ UNCHANGED <<typeVars, data, other, orig, res, draws,
                   host, once, cell, local, seen, inits>>

Initialise(t) ==
    /\ pc[t] = "init"
    /\ local' = [local EXCEPT ![t] = detect(host)]
    /\ pc' = [pc EXCEPT ![t] = "store"]
    /\ UNCHANGED <<typeVars, data, other, orig, res, draws,
                   host, once, cell, seen, inits>>

Store(t) ==
    /\ pc[t] = "store"
    /\ cell' = local[t]
    /\ pc' = [pc EXCEPT ![t] = "complete"]
    /\ UNCHANGED <<typeVars, data, other, orig, res, draws,
                   host, once, local, seen, inits>>

Complete(t) ==
    /\ pc[t] = "complete"
    /\ once' = "COMPLETE"
    /\ pc' = [pc EXCEPT ![t] = "read"]
    /\ UNCHANGED <<typeVars, data, other, orig, res, draws,
                   host, cell, local, seen, inits>>

\* match CPU_FEATURE.val() { .. }: the tier the call is routed by
Dispatch(t) ==
    /\ pc[t] = "read"
    /\ seen' = [seen EXCEPT ![t] = Append(seen[t], cell)]
    /\ pc' = [pc EXCEPT ![t] = "idle"]
    /\ UNCHANGED <<typeVars, data, other, orig, res, draws,
                   host, once, cell, local, inits>>

NextTier ==
    \E t \in Threads :
        \/ Call(t) \/ FastPath(t) \/ SlowPath(t) \/ Acquire(t) \/ Wait(t) \/ Wake(t)
        \/ Initialise(t) \/ Store(t) \/ Complete(t) \/ Dispatch(t)

SpecTier == InitTier /\ [][NextTier]_vars

----------------------------------------------------------------------------
(* Operations on one Multiset *)

\* no thread has touched CPU_FEATURE
TierIdle ==
    /\ host = {} /\ once = "INCOMPLETE" /\ cell = "unset"
    /\ pc = <<>> /\ local = <<>> /\ seen = <<>> /\ inits = 0

InitArr ==
    /\ kind = "Multiset"
    /\ lanes \in LaneCounts
    /\ nvec \in 1 .. MaxVecs
    /\ bits \in ScalarBits
    /\ \E f \in SparseArrays(lanes * nvec, MaxDev, Scalars(bits)) :
           data = Vectors(f, lanes, nvec)
    /\ other = data
    /\ orig = data
    /\ res = NoRes
    /\ draws = 0
    /\ source = <<>>
    /\ taken = 0
    /\ size = 0
    /\ tier = "DEF"
    /\ TierIdle

Argmin ==
    /\ res = NoRes
    /\ LET r == Multiset_argmin(data, lanes, nvec)
       IN res' = [op |-> "argmin", index |-> r[1], value |-> r[2]]
    /\ UNCHANGED <<typeVars, data, other, orig, draws, tierVars>>

Imin ==
    /\ res = NoRes
    /\ res' = [op |-> "imin", index |-> Multiset_imin(data, lanes, nvec)]
    /\ UNCHANGED <<typeVars, data, other, orig, draws, tierVars>>

Total ==
    /\ res = NoRes
    /\ res' = [op |-> "total", value |-> Multiset_total(data, lanes, nvec, bits)]
    /\ UNCHANGED <<typeVars, data, other, orig, draws, tierVars>>

IsEmpty ==
    /\ res = NoRes
    /\ res' = [op |-> "is_empty", value |-> Multiset_is_empty(data, lanes, nvec)]
    /\ UNCHANGED <<typeVars, data, other, orig, draws, tierVars>>

Choose ==
    \E elem \in 0 .. Multiset_len(lanes, nvec) + 1 :
        /\ res = NoRes
        /\ data' = Multiset_choose(data, lanes, nvec, bits, elem)
        /\ res' = [op |-> "choose", elem |-> elem]
        /\ UNCHANGED <<typeVars, other, orig, draws, tierVars>>

\* choose_random panics before it draws: the ticket range cannot be formed
ChooseRandomNoRange ==
    /\ res = NoRes
    /\ Multiset_choice_range(data, lanes, nvec, bits) = {}
    /\ res' = [op |-> "choose_random", drawn |-> FALSE, panic |-> TRUE]
    /\ UNCHANGED <<typeVars, data, other, orig, draws, tierVars>>

ChooseRandom ==
    \E oc \in BOOLEAN :
    \E choice_value \in
           {t \in TicketSamples(Flat(data, lanes, nvec), lanes * nvec, bits,
                                Multiset_total(data, lanes, nvec, bits)) :
               t \in Multiset_choice_range(data, lanes, nvec, bits)} :
        LET r == Multiset_choose_random(data, lanes, nvec, bits, choice_value, oc)
        IN /\ res = NoRes
           /\ data' = r.data
           /\ draws' = draws + 1
           /\ res' = [op |-> "choose_random", drawn |-> TRUE,
                      choice_value |-> choice_value, panic |-> r.panic]
           /\ UNCHANGED <<typeVars, other, orig, tierVars>>

NextArr ==
    \/ Argmin \/ Imin \/ Total \/ IsEmpty
    \/ Choose \/ ChooseRandomNoRange \/ ChooseRandom

SpecArr == InitArr /\ [][NextArr]_vars

----------------------------------------------------------------------------
(* Operations on one Multiset2<u16, SIZE> *)

InitM2 ==
    /\ kind = "Multiset2"
    /\ lanes = 0
    /\ nvec = 0
    /\ bits = U16Bits
    /\ size \in 0 .. MaxSize
    /\ tier \in CPUFeature
    /\ data \in SparseArrays(size, MaxDev2, Scalars(U16Bits))
    /\ other = data
    /\ orig = data
    /\ res = NoRes
    /\ draws = 0
    /\ source = <<>>
    /\ taken = 0
    /\ TierIdle

Total2 ==
    /\ res = NoRes
    /\ res' = [op |-> "total", value |-> Multiset2_total(data, size, tier)]
    /\ UNCHANGED <<typeVars, data, other, orig, draws, tierVars>>

\* tickets tried: the ends of the range and both sides of every running sum
TicketSamples2(f, n, t) ==
    {1, t - 1, t}
    \cup {PrefixSum(f, p) : p \in 0 .. n - 1}
    \cup {PrefixSum(f, p) + 1 : p \in 0 .. n - 1}

\* choose_random with total() == 0: the early return
ChooseRandom2Empty ==
    /\ res = NoRes
    /\ Multiset2_total(data, size, tier) = 0
    /\ res' = [op |-> "choose_random", drawn |-> FALSE]
    /\ UNCHANGED <<typeVars, data, other, orig, draws, tierVars>>

ChooseRandom2 ==
    LET total == Multiset2_total(data, size, tier)
    IN /\ res = NoRes
       /\ total # 0
       /\ \E choice_value \in
                 {t \in TicketSamples2(data, size, total) :
                     t \in GenRangeInclusive(1, total)} :
              /\ data' = Multiset2_choose_random(data, size, choice_value)
              /\ res' = [op |-> "choose_random", drawn |-> TRUE,
                         choice_value |-> choice_value]
       /\ draws' = draws + 1
       /\ UNCHANGED <<typeVars, other, orig, tierVars>>

NextM2 == Total2 \/ ChooseRandom2Empty \/ ChooseRandom2

SpecM2 == InitM2 /\ [][NextM2]_vars

----------------------------------------------------------------------------
(* Operations on two multisets of equal capacity, of either type; other is *)
(* a multiset of one repeated multiplicity                                 *)

InitPair ==
    /\ kind \in {"Multiset", "Multiset2"}
    /\ IF kind = "Multiset"
       THEN /\ lanes \in LaneCounts
            /\ nvec \in 1 .. MaxVecs
            /\ bits \in ScalarBits
            /\ size = 0
            /\ tier = "DEF"
            /\ \E f \in SparseArrays(lanes * nvec, MaxDev, Scalars(bits)) :
                   data = Vectors(f, lanes, nvec)
            /\ \E elem \in Scalars(bits) : other = Multiset_repeat(elem, lanes, nvec)
       ELSE /\ lanes = 0
            /\ nvec = 0
            /\ bits = U16Bits
            /\ size \in 0 .. MaxSize
            /\ tier \in CPUFeature
            /\ data \in SparseArrays(size, MaxDev2, Scalars(U16Bits))
            /\ \E elem \in Scalars(U16Bits) : other = [p \in 0 .. size - 1 |-> elem]
    /\ orig = data
    /\ res = NoRes
    /\ draws = 0
    /\ source = <<>>
    /\ taken = 0
    /\ TierIdle

Intersection ==
    /\ res = NoRes
    /\ kind = "Multiset"
    /\ res' = [op |-> "intersection", value |-> Multiset_intersection(data, other, nvec),
               other |-> other]
    /\ UNCHANGED <<typeVars, data, other, orig, draws, tierVars>>

Union ==
    /\ res = NoRes
    /\ kind = "Multiset"
    /\ res' = [op |-> "union", value |-> Multiset_union(data, other, nvec),
               other |-> other]
    /\ UNCHANGED <<typeVars, data, other, orig, draws, tierVars>>

IsAnyLesser ==
    /\ res = NoRes
    /\ kind = "Multiset"
    /\ res' = [op |-> "is_any_lesser",
               value |-> Multiset_is_any_lesser(data, other, nvec)]
    /\ UNCHANGED <<typeVars, data, other, orig, draws, tierVars>>

IsAnyGreater ==
    /\ res = NoRes
    /\ kind = "Multiset"
    /\ res' = [op |-> "is_any_greater",
               value |-> Multiset_is_any_greater(data, other, nvec)]
    /\ UNCHANGED <<typeVars, data, other, orig, draws, tierVars>>

\* a.union(&b).total(), a.intersection(&b).total(), a.total() and b.total()
UnionIntersectionTotals ==
    /\ res = NoRes
    /\ kind = "Multiset"
    /\ res' = [op |-> "totals",
               union |-> Multiset_total(Multiset_union(data, other, nvec),
                                        lanes, nvec, bits),
               intersection |-> Multiset_total(Multiset_intersection(data, other, nvec),
                                               lanes, nvec, bits),
               self |-> Multiset_total(data, lanes, nvec, bits),
               other |-> Multiset_total(other, lanes, nvec, bits)]
    /\ UNCHANGED <<typeVars, data, other, orig, draws, tierVars>>

Intersection2 ==
    /\ res = NoRes
    /\ kind = "Multiset2"
    /\ res' = [op |-> "intersection",
               value |-> Multiset2_intersection(data, other, size, tier),
               other |-> other]
    /\ UNCHANGED <<typeVars, data, other, orig, draws, tierVars>>

Union2 ==
    /\ res = NoRes
    /\ kind = "Multiset2"
    /\ res' = [op |-> "union", value |-> Multiset2_union(data, other, size, tier),
               other |-> other]
    /\ UNCHANGED <<typeVars, data, other, orig, draws, tierVars>>

IsAnyLesser2 ==
    /\ res = NoRes
    /\ kind = "Multiset2"
    /\ res' = [op |-> "is_any_lesser",
               value |-> Multiset2_is_any_lesser(data, other, size, tier)]
    /\ UNCHANGED <<typeVars, data, other, orig, draws, tierVars>>

IsAnyGreater2 ==
    /\ res = NoRes
    /\ kind = "Multiset2"
    /\ res' = [op |-> "is_any_greater",
               value |-> Multiset2_is_any_greater(data, other, size, tier)]
    /\ UNCHANGED <<typeVars, data, other, orig, draws, tierVars>>

UnionIntersectionTotals2 ==
    /\ res = NoRes
    /\ kind = "Multiset2"
    /\ res' = [op |-> "totals",
               union |-> Multiset2_total(Multiset2_union(data, other, size, tier),
                                         size, tier),
               intersection |->
                   Multiset2_total(Multiset2_intersection(data, other, size, tier),
                                   size, tier),
               self |-> Multiset2_total(data, size, tier),
               other |-> Multiset2_total(other, size, tier)]
    /\ UNCHANGED <<typeVars, data, other, orig, draws, tierVars>>

IsProperSubset ==
    /\ res = NoRes
    /\ kind = "Multiset"
    /\ res' = [op |-> "is_proper_subset",
               value |-> Multiset_is_proper_subset(data, other, nvec)]
    /\ UNCHANGED <<typeVars, data, other, orig, draws, tierVars>>

IsProperSuperset ==
    /\ res = NoRes
    /\ kind = "Multiset"
    /\ res' = [op |-> "is_proper_superset",
               value |-> Multiset_is_proper_superset(data, other, nvec)]
    /\ UNCHANGED <<typeVars, data, other, orig, draws, tierVars>>

IsProperSubset2 ==
    /\ res = NoRes
    /\ kind = "Multiset2"
    /\ res' = [op |-> "is_proper_subset",
               value |-> Multiset2_is_proper_subset(data, other, size, tier)]
    /\ UNCHANGED <<typeVars, data, other, orig, draws, tierVars>>

IsProperSuperset2 ==
    /\ res = NoRes
    /\ kind = "Multiset2"
    /\ res' = [op |-> "is_proper_superset",
               value |-> Multiset2_is_proper_superset(data, other, size, tier)]
    /\ UNCHANGED <<typeVars, data, other, orig, draws, tierVars>>

NextPair ==
    \/ Intersection \/ Union \/ IsAnyLesser \/ IsAnyGreater \/ UnionIntersectionTotals
    \/ Intersection2 \/ Union2 \/ IsAnyLesser2 \/ IsAnyGreater2
    \/ UnionIntersectionTotals2
    \/ IsProperSubset \/ IsProperSuperset \/ IsProperSubset2 \/ IsProperSuperset2

SpecPair == InitPair /\ [][NextPair]_vars

----------------------------------------------------------------------------
(* Queries on one multiset of either type *)

InitQuery == InitArr \/ InitM2

Argmax ==
    /\ res = NoRes
    /\ kind = "Multiset"
    /\ LET r == Multiset_argmax(data, lanes, nvec)
       IN res' = [op |-> "argmax", index |-> r[1], value |-> r[2]]
    /\ UNCHANGED <<typeVars, data, other, orig, draws, tierVars>>

Imax ==
    /\ res = NoRes
    /\ kind = "Multiset"
    /\ res' = [op |-> "imax", index |-> Multiset_imax(data, lanes, nvec)]
    /\ UNCHANGED <<typeVars, data, other, orig, draws, tierVars>>

CountZero ==
    /\ res = NoRes
    /\ kind = "Multiset"
    /\ res' = [op |-> "count_zero",
               value |-> Multiset_count_zero(data, lanes, nvec, bits)]
    /\ UNCHANGED <<typeVars, data, other, orig, draws, tierVars>>

CountNonZero ==
    /\ res = NoRes
    /\ kind = "Multiset"
    /\ res' = [op |-> "count_non_zero",
               value |-> Multiset_count_non_zero(data, lanes, nvec, bits)]
    /\ UNCHANGED <<typeVars, data, other, orig, draws, tierVars>>

IsSingleton ==
    /\ res = NoRes
    /\ kind = "Multiset"
    /\ res' = [op |-> "is_singleton",
               value |-> Multiset_is_singleton(data, lanes, nvec, bits)]
    /\ UNCHANGED <<typeVars, data, other, orig, draws, tierVars>>

CountZero2 ==
    /\ res = NoRes
    /\ kind = "Multiset2"
    /\ res' = [op |-> "count_zero",
               value |-> Multiset2_count_zero(data, size, tier)]
    /\ UNCHANGED <<typeVars, data, other, orig, draws, tierVars>>

CountNonZero2 ==
    /\ res = NoRes
    /\ kind = "Multiset2"
    /\ res' = [op |-> "count_non_zero",
               value |-> Multiset2_count_non_zero(data, size, tier)]
    /\ UNCHANGED <<typeVars, data, other, orig, draws, tierVars>>

IsSingleton2 ==
    /\ res = NoRes
    /\ kind = "Multiset2"
    /\ res' = [op |-> "is_singleton",
               value |-> Multiset2_is_singleton(data, size, tier)]
    /\ UNCHANGED <<typeVars, data, other, orig, draws, tierVars>>

MaxCount ==
    /\ res = NoRes
    /\ kind = "Multiset"
    /\ res' = [op |-> "max", value |-> Multiset_max(data, lanes, nvec, bits)]
    /\ UNCHANGED <<typeVars, data, other, orig, draws, tierVars>>

MinCount ==
    /\ res = NoRes
    /\ kind = "Multiset"
    /\ res' = [op |-> "min", value |-> Multiset_min(data, lanes, nvec, bits)]
    /\ UNCHANGED <<typeVars, data, other, orig, draws, tierVars>>

Clear ==
    /\ res = NoRes
    /\ kind = "Multiset"
    /\ data' = Multiset_clear(data, nvec, bits)
    /\ res' = [op |-> "clear"]
    /\ UNCHANGED <<typeVars, other, orig, draws, tierVars>>

Contains ==
    \E elem \in 0 .. Multiset_len(lanes, nvec) + 1 :
        /\ res = NoRes
        /\ kind = "Multiset"
        /\ res' = [op |-> "contains", elem |-> elem,
                   value |-> Multiset_contains(data, lanes, nvec, elem)]
        /\ UNCHANGED <<typeVars, data, other, orig, draws, tierVars>>

NextQuery ==
    \/ Argmax \/ Imax \/ MaxCount \/ MinCount \/ Clear \/ Contains
    \/ CountZero \/ CountNonZero \/ IsSingleton
    \/ CountZero2 \/ CountNonZero2 \/ IsSingleton2

SpecQuery == InitQuery /\ [][NextQuery]_vars

----------------------------------------------------------------------------
(* Construction of a Multiset from a sequence of values *)

InitBuild ==
    /\ kind = "Multiset"
    /\ lanes \in LaneCounts
    /\ nvec \in 1 .. MaxVecs
    /\ bits \in ScalarBits
    /\ size = 0
    /\ tier = "DEF"
    /\ \E k \in 0 .. lanes * nvec + MaxExtra :
           source \in SparseArrays(k, MaxSrcDev, Scalars(bits))
    /\ taken = 0
    /\ data = <<>>
    /\ other = <<>>
    /\ orig = <<>>
    /\ res = NoRes
    /\ draws = 0
    /\ TierIdle

FromIter ==
    /\ res = NoRes
    /\ LET r == Multiset_from_iter(source, lanes, nvec)
       IN /\ data' = r.data
          /\ taken' = r.it
    /\ res' = [op |-> "from_iter"]
    /\ UNCHANGED <<kind, lanes, nvec, bits, size, tier, source, other, orig,
                   draws, tierVars>>

FromSlice ==
    /\ res = NoRes
    /\ LET r == Multiset_from_slice(source, lanes, nvec)
       IN /\ data' = IF r.panic THEN data ELSE r.data
          /\ res' = [op |-> "from_slice", panic |-> r.panic]
    /\ UNCHANGED <<typeVars, other, orig, draws, tierVars>>

NextBuild == FromIter \/ FromSlice

SpecBuild == InitBuild /\ [][NextBuild]_vars

----------------------------------------------------------------------------
(* Properties of one Multiset *)

\* the multiplicities of self before and after the operation, flattened
OrigFlat == Flat(orig, lanes, nvec)
DataFlat == Flat(data, lanes, nvec)
Positions == 0 .. lanes * nvec - 1
NonZero(f) == {p \in DOMAIN f : f[p] > 0}
\* smallest / largest multiplicity of the flat array f
MinOf(f) == CHOOSE v \in {f[p] : p \in DOMAIN f} : \A p \in DOMAIN f : v <= f[p]
\* first position of f holding v
FirstAt(f, v) == CHOOSE p \in DOMAIN f : f[p] = v /\ \A q \in DOMAIN f : f[q] = v => p <= q

MaxOf(f) == CHOOSE v \in {f[p] : p \in DOMAIN f} : \A p \in DOMAIN f : v >= f[p]

\* C1: argmin() returns (i, v) with v the smallest multiplicity over all
\* len() positions and i the smallest flattened position (vector index *
\* lanes + lane) holding v; imin() returns that i.
C1_ArgminFirstSmallest ==
    /\ res.op = "argmin" =>
           /\ res.value = MinOf(DataFlat)
           /\ res.index = FirstAt(DataFlat, MinOf(DataFlat))
    /\ res.op = "imin" => res.index = FirstAt(DataFlat, MinOf(DataFlat))

\* C4 as claimed: is_empty() is true if and only if total() == 0, total()
\* being the wrap-around sum in the scalar width.
C4_IsEmptyIffTotalZero ==
    res.op = "is_empty" =>
        (res.value <=> Multiset_total(data, lanes, nvec, bits) = 0)

\* C4 as amended: is_empty() is true if and only if every multiplicity is 0;
\* then total() == 0, and total() == 0 implies is_empty() when the exact sum
\* of the multiplicities fits the scalar width.
C4_IsEmptyIffAllZero ==
    res.op = "is_empty" =>
        /\ res.value <=> \A p \in Positions : DataFlat[p] = 0
        /\ res.value => Multiset_total(data, lanes, nvec, bits) = 0
        /\ (/\ Multiset_total(data, lanes, nvec, bits) = 0
            /\ SumTo(DataFlat, lanes * nvec - 1) <= MaxScalar(bits)) => res.value

\* is_empty() was asked of a multiset that is not empty and whose total wraps to 0
C4_Witness ==
    /\ res.op = "is_empty"
    /\ ~res.value
    /\ Multiset_total(data, lanes, nvec, bits) = 0

\* first position whose exact running sum reaches the ticket t
FirstReaching(f, t) ==
    CHOOSE p \in DOMAIN f :
        /\ PrefixSum(f, p) >= t
        /\ p > 0 => PrefixSum(f, p - 1) < t

\* C5: choose_random on a multiset with total() > 0 leaves exactly one
\* position non-zero for every value the generator can return; the position
\* keeps its original, strictly positive multiplicity and is the first in index
\* order whose running sum reaches the ticket, the ticket being in
\* [1, total()].  With total() == 0 the multiset is left unchanged.
C5_ChooseRandomKeepsOne ==
    res.op = "choose_random" =>
        IF Multiset_total(orig, lanes, nvec, bits) > 0
        THEN res.drawn =>
                 /\ res.choice_value \in 1 .. Multiset_total(orig, lanes, nvec, bits)
                 /\ \E j \in Positions :
                        /\ NonZero(DataFlat) = {j}
                        /\ DataFlat[j] = OrigFlat[j]
                        /\ OrigFlat[j] > 0
                        /\ j = FirstReaching(OrigFlat, res.choice_value)
        ELSE data = orig

\* C10: after choose(i), i in range or not, every position other than i is 0
\* and position i, when i < len(), holds its original multiplicity; when
\* i >= len() the multiset is empty.  total() is then the original
\* multiplicity of i, or 0 when i is out of range.
C10_ChooseKeepsOnlyElem ==
    res.op = "choose" =>
        /\ \A p \in Positions : p # res.elem => DataFlat[p] = 0
        /\ res.elem < Multiset_len(lanes, nvec) =>
               /\ DataFlat[res.elem] = OrigFlat[res.elem]
               /\ Multiset_total(data, lanes, nvec, bits) = OrigFlat[res.elem]
        /\ res.elem >= Multiset_len(lanes, nvec) =>
               /\ Multiset_is_empty(data, lanes, nvec)
               /\ Multiset_total(data, lanes, nvec, bits) = 0

\* choose(i) ran on a multiset holding members at i, in a vector that is not
\* the first, and at other positions
C10_Witness ==
    /\ res.op = "choose"
    /\ res.elem < Multiset_len(lanes, nvec)
    /\ res.elem >= lanes
    /\ OrigFlat[res.elem] > 0
    /\ NonZero(OrigFlat) \ {res.elem} # {}
    /\ NonZero(DataFlat) = {res.elem}

----------------------------------------------------------------------------
(* Properties of one Multiset2<u16, SIZE> *)

\* the exact sum of the SIZE multiplicities
ExactTotal(d, n) == SumTo(d, n - 1)

\* C2: total() returns the same number on every dispatch tier, the exact
\* sum of all SIZE multiplicities, no partial sum being narrowed to 16 bits.
C2_TotalExactOnEveryTier ==
    res.op = "total" =>
        /\ res.value = ExactTotal(data, size)
        /\ \A t \in CPUFeature : Multiset2_total(data, size, t) = res.value

\* C6: choose_random with total() == 0 returns without changing a position
\* and without drawing; with total() > 0 and a ticket t in [1, total()] the
\* result has exactly one non-zero position j, the smallest index whose
\* prefix sum is >= t, holding the original data[j] > 0.
C6_ChooseRandom2 ==
    res.op = "choose_random" =>
        IF Multiset2_total(orig, size, tier) = 0
        THEN data = orig /\ draws = 0 /\ ~res.drawn
        ELSE /\ res.drawn
             /\ draws = 1
             /\ res.choice_value \in 1 .. Multiset2_total(orig, size, tier)
             /\ \E j \in 0 .. size - 1 :
                    /\ NonZero(data) = {j}
                    /\ data[j] = orig[j]
                    /\ orig[j] > 0
                    /\ j = FirstReaching(orig, res.choice_value)

\* choose_random drew a ticket that the first non-zero position does not reach
C6_Witness ==
    /\ res.op = "choose_random"
    /\ res.drawn
    /\ \E j \in 0 .. size - 1, p \in 0 .. size - 1 :
           p < j /\ orig[p] > 0 /\ NonZero(data) = {j}

----------------------------------------------------------------------------
(* Properties of two multisets *)

\* the multiplicities of a multiset of the type of self, by position
FlatOf(d) == IF kind = "Multiset" THEN Flat(d, lanes, nvec) ELSE d
\* N, the number of positions
Capacity == IF kind = "Multiset" THEN Multiset_len(lanes, nvec) ELSE size

\* C3: is_any_lesser(A, B) is true exactly when some index i has A[i] < B[i]
\* and is_any_greater(A, B) exactly when some i has A[i] > B[i], on every
\* dispatch tier and for arrays of several chunks.
C3_IsAnyLesserGreater ==
    /\ res.op = "is_any_lesser" =>
           (res.value <=> \E p \in 0 .. Capacity - 1 : FlatOf(data)[p] < FlatOf(other)[p])
    /\ res.op = "is_any_greater" =>
           (res.value <=> \E p \in 0 .. Capacity - 1 : FlatOf(data)[p] > FlatOf(other)[p])

\* C7: total(union(A,B)) + total(intersection(A,B)) == total(A) + total(B),
\* for the SIMD-array Multiset with the sums taken in the scalar width and
\* for Multiset2<u16, SIZE> on every dispatch tier.
C7_InclusionExclusion ==
    res.op = "totals" =>
        IF kind = "Multiset"
        THEN (res.union + res.intersection) % Pow2(bits)
                 = (res.self + res.other) % Pow2(bits)
        ELSE res.union + res.intersection = res.self + res.other

\* C8: on every dispatch tier intersection(A,B)[i] == min(A[i], B[i]) and
\* union(A,B)[i] == max(A[i], B[i]) at every index i in 0..N, the remainder
\* positions included; A and B are unchanged afterwards.
C8_IntersectionUnionElementwise ==
    kind = "Multiset2" =>
        /\ res.op = "intersection" =>
               /\ DOMAIN res.value = 0 .. size - 1
               /\ \A p \in 0 .. size - 1 : res.value[p] = Min(orig[p], res.other[p])
               /\ data = orig /\ other = res.other
        /\ res.op = "union" =>
               /\ DOMAIN res.value = 0 .. size - 1
               /\ \A p \in 0 .. size - 1 : res.value[p] = Max(orig[p], res.other[p])
               /\ data = orig /\ other = res.other

\* a vector kernel computed an intersection that differs from both operands,
\* in an array with a full chunk and a remainder
C8_Witness ==
    /\ kind = "Multiset2"
    /\ res.op = "intersection"
    /\ tier # "DEF"
    /\ size > TierLanes(tier)
    /\ size % TierLanes(tier) # 0
    /\ res.value # data
    /\ res.value # other

----------------------------------------------------------------------------
(* Properties of the capability tier *)

\* the first supported entry of the preference order AVX2, AVX, SSE4.2, default
FirstSupported(h) ==
    LET order == <<"avx2", "avx", "sse4.2">>
        name == <<"AVX2", "AVX", "SSE42">>
        sup == {k \in 1 .. 3 : order[k] \in h}
    IN IF sup = {} THEN "DEF"
       ELSE name[CHOOSE k \in sup : \A m \in sup : k <= m]

\* C9: the tier is computed at most once per process: under any interleaving
\* of concurrent first calls every dispatch observes the same initialised
\* value, the value never changes once set, and it is the first supported
\* entry of the preference order.
C9_TierOnce ==
    /\ inits <= 1
    /\ cell \in {"unset", FirstSupported(host)}
    /\ once = "COMPLETE" => cell = FirstSupported(host)
    /\ \A t \in Threads : \A k \in 1 .. Len(seen[t]) : seen[t][k] = FirstSupported(host)

\* a thread dispatched on a tier that is not the first of the order while
\* another, which found the Once running, has not yet been woken
C9_Witness ==
    \E t \in Threads, u \in Threads :
        /\ t # u
        /\ Len(seen[t]) > 0
        /\ pc[u] = "wait"
        /\ inits = 1
        /\ "avx2" \notin host
        /\ "sse4.2" \in host

\* C11: argmax() returns (i, v) with v the largest multiplicity over all
\* len() positions and i the smallest flattened position (vector index *
\* lanes + lane) holding v; imax() returns that i.
C11_ArgmaxFirstLargest ==
    /\ res.op = "argmax" =>
           /\ res.value = MaxOf(DataFlat)
           /\ res.index = FirstAt(DataFlat, MaxOf(DataFlat))
    /\ res.op = "imax" => res.index = FirstAt(DataFlat, MaxOf(DataFlat))

\* argmax on a multiset whose largest multiplicity is held twice, first
\* in a vector after the first one
C11_Witness ==
    /\ res.op = "argmax"
    /\ res.index >= lanes
    /\ res.value > DataFlat[0]
    /\ \E q \in Positions : q > res.index /\ DataFlat[q] = res.value


\* C12: building from a sequence of k values takes min(k, N) values from
\* it, in order: position p < min(k, N) holds the p-th value, every position
\* p >= k holds 0, and when k > N the values after the N-th are never taken.
C12_FromIterPrefix ==
    res.op = "from_iter" =>
        LET k == SliceLen(source)
            N == Multiset_len(lanes, nvec)
        IN /\ taken = Min(k, N)
           /\ taken <= N
           /\ \A p \in Positions :
                  DataFlat[p] = IF p < k THEN source[p] ELSE 0

\* a sequence that ends inside the second vector, after a non-zero value
\* in the lane above the last one it fills
C12_Witness ==
    /\ res.op = "from_iter"
    /\ nvec = 2
    /\ SliceLen(source) > lanes
    /\ SliceLen(source) < lanes * nvec
    /\ \E p \in DOMAIN source :
           /\ source[p] > 0
           /\ p + lanes \in Positions
           /\ p + lanes >= SliceLen(source)

\* from_slice with a length other than len() fails and builds nothing; with
\* the length len() it succeeds and position p holds values[p]
C13_FromSliceLength ==
    res.op = "from_slice" =>
        /\ res.panic <=> SliceLen(source) # Multiset_len(lanes, nvec)
        /\ res.panic => data = <<>>
        /\ ~res.panic => \A p \in Positions : DataFlat[p] = source[p]


\* from_slice given more values than len(): it fails, nothing is built
C13_Witness ==
    /\ res.op = "from_slice"
    /\ res.panic
    /\ SliceLen(source) > Multiset_len(lanes, nvec)
    /\ data = <<>>

\* C14: on both multiset types and on every dispatch tier, remainder chunk
\* included, count_non_zero() is the number of positions holding more than
\* 0, count_zero() + count_non_zero() is N, and is_singleton() is true
\* exactly when one position is non-zero.
C14_Counts ==
    LET non_zero == Cardinality(NonZero(FlatOf(data)))
        count_non_zero ==
            IF kind = "Multiset"
            THEN Multiset_count_non_zero(data, lanes, nvec, bits)
            ELSE Multiset2_count_non_zero(data, size, tier)
    IN /\ res.op = "count_non_zero" => res.value = non_zero
       /\ res.op = "count_zero" =>
              /\ res.value + count_non_zero = Capacity
              /\ res.value = Capacity - non_zero
       /\ res.op = "is_singleton" => (res.value <=> non_zero = 1)

\* count_non_zero on a vector tier of a Multiset2 whose only non-zero
\* position lies in the remainder chunk
C14_Witness ==
    /\ res.op = "count_non_zero"
    /\ kind = "Multiset2"
    /\ tier # "DEF"
    /\ size % TierLanes(tier) # 0
    /\ size > TierLanes(tier)
    /\ NonZero(data) # {}
    /\ \A p \in NonZero(data) : p >= (size \div TierLanes(tier)) * TierLanes(tier)
    /\ res.value = 1

\* C15: is_proper_subset(A, B) is true exactly when A[i] <= B[i] for every
\* i and A[j] < B[j] for some j, is_proper_superset mirrors it with >= and >,
\* on both multiset types and on every dispatch tier; the two forms (A != B
\* and is_subset; is_subset and is_any_lesser) agree on the same contents,
\* and a multiset is never a proper subset or superset of itself.
C15_ProperSubset ==
    LET A == FlatOf(data)
        B == FlatOf(other)
        P == 0 .. Capacity - 1
    IN /\ res.op = "is_proper_subset" =>
              /\ res.value <=> /\ \A p \in P : A[p] <= B[p]
                               /\ \E p \in P : A[p] < B[p]
              /\ \A t \in CPUFeature :
                     res.value = Multiset2_is_proper_subset(A, B, Capacity, t)
              /\ A = B => ~res.value
       /\ res.op = "is_proper_superset" =>
              /\ res.value <=> /\ \A p \in P : A[p] >= B[p]
                               /\ \E p \in P : A[p] > B[p]
              /\ \A t \in CPUFeature :
                     res.value = Multiset2_is_proper_superset(A, B, Capacity, t)
              /\ A = B => ~res.value

\* is_proper_subset of a Multiset2 and an equal one, on a vector tier and
\* over a full chunk and a remainder
C15_Witness ==
    /\ res.op = "is_proper_subset"
    /\ kind = "Multiset2"
    /\ tier # "DEF"
    /\ size > TierLanes(tier)
    /\ size % TierLanes(tier) # 0
    /\ data = other
    /\ ~res.value

\* C16: choose_random of the SIMD-array Multiset completes normally for
\* every multiset and every ticket: neither the bound total() + 1 of the
\* ticket range nor the running sum acc leaves the scalar width, and the
\* ticket range is never empty.
C16_ChooseRandomCompletes ==
    (kind = "Multiset" /\ res.op = "choose_random") => ~res.panic

\* C17: max() is the value argmax() returns and min() the value argmin()
\* returns; after clear() the multiset is_empty(), its total() and its
\* count_non_zero() are 0, contains(i) is false for every i, in range or
\* not, and len() and the shape of the data are what they were.
C17_MaxMinClear ==
    /\ (kind = "Multiset" /\ res.op = "max") =>
           res.value = Multiset_argmax(data, lanes, nvec)[2]
    /\ (kind = "Multiset" /\ res.op = "min") =>
           res.value = Multiset_argmin(data, lanes, nvec)[2]
    /\ res.op = "clear" =>
           /\ Multiset_is_empty(data, lanes, nvec)
           /\ Multiset_total(data, lanes, nvec, bits) = 0
           /\ Multiset_count_non_zero(data, lanes, nvec, bits) = 0
           /\ \A i \in 0 .. Multiset_len(lanes, nvec) + 1 :
                  ~Multiset_contains(data, lanes, nvec, i)
           /\ DOMAIN Flat(data, lanes, nvec) = DOMAIN Flat(orig, lanes, nvec)
           /\ Cardinality(DOMAIN Flat(data, lanes, nvec)) = Multiset_len(lanes, nvec)
    /\ res.op = "contains" =>
           (res.value <=> (res.elem \in Positions /\ DataFlat[res.elem] > 0))

\* min() of a multiset of two vectors whose smallest multiplicity is not 0
\* and lies past position 0
C17_Witness ==
    /\ res.op = "min"
    /\ kind = "Multiset"
    /\ nvec = 2
    /\ res.value > 0
    /\ res.value < DataFlat[0]

====
